---- MODULE Spec2Model ----
(***************************************************************************)
(* Fourier seasonality of pymc_marketing.mmm.fourier: construction of a    *)
(* FourierBase component, its node labels, the Fourier feature matrix, the *)
(* named-axis contraction of apply, the prior sample, and the full-period  *)
(* curve.                                                                  *)
(*                                                                         *)
(* Python values are modelled as follows.                                  *)
(*   str           a TLA+ string; None is the string None below            *)
(*   n_order       [type, halves]: the Python type and twice the value, so *)
(*                 that 2.5 is [type |-> "float", halves |-> 5]            *)
(*   Prior         an entry of the heap `priors`: object id -> dims tuple  *)
(*   tensor        [shape, data]: data maps 0-based index tuples to values *)
(*   day values    integers counting 1/64 of a day (365.25 / 12 is exact)  *)
(*   period        a fraction <<num, den>> of one turn                     *)
(***************************************************************************)
EXTENDS Integers, Sequences, FiniteSets, TLC

VARIABLES
    priors,     \* heap of Prior objects: id -> declared dims (a tuple of str)
    fourier,    \* the component the caller holds, or Unbound
    model,      \* the pm.Model context the caller is in, or NoModel
    call,       \* the last call made: operation and arguments
    raised,     \* the error the last call raised, or NoError
    ret         \* what the last call returned, or NoValue

vars == <<priors, fourier, model, call, raised, ret>>

-----------------------------------------------------------------------------
(* Bounds of the model *)

MaxOrder == 2       \* largest n_order drawn
MaxDims == 3        \* longest dims tuple a caller's prior declares
MaxRows == 2        \* longest dayofyear / periods array drawn

-----------------------------------------------------------------------------
(* Python values *)

None == "None"
NoError == "NoError"
NoValue == "NoValue"
Unbound == [cls |-> "Unbound"]
NoModel == [active |-> FALSE, coords |-> <<>>, vars |-> {}]

Truthy(s) == s # None /\ s # ""

Range(s) == {s[i] : i \in 1..Len(s)}

\* tuple.index(x): 0-based position of the first x; -1 stands for ValueError
Index(s, x) ==
    IF x \in Range(s)
    THEN (CHOOSE i \in 1..Len(s) : s[i] = x /\ \A j \in 1..(i - 1) : s[j] # x) - 1
    ELSE -1

IntOrder(k) == [type |-> "int", halves |-> 2 * k]
FloatOrder(h) == [type |-> "float", halves |-> h]

-----------------------------------------------------------------------------
(* Inputs the caller draws from *)

Classes == {"YearlyFourier", "MonthlyFourier"}

OrderInputs == {IntOrder(k) : k \in -1..MaxOrder} \cup {FloatOrder(5)}

AxisNames == {"fourier", "seasonality", "hierarchy"}

PrefixInputs == {None, "", "seasonality"}

NameInputs == {None, "fourier", "seasonality"}

\* tuples of distinct axis names, the dims a Prior can declare
DimsInputs ==
    UNION {{d \in [1..n -> AxisNames] : \A i, j \in 1..n : i # j => d[i] # d[j]}
           : n \in 0..MaxDims}

-----------------------------------------------------------------------------
(* Tensors: a shape and the values at the 0-based index tuples *)

RECURSIVE Indices(_)
Indices(shape) ==
    IF shape = <<>>
    THEN {<<>>}
    ELSE {<<i>> \o t : i \in 0..(shape[1] - 1), t \in Indices(Tail(shape))}

\* an angle is a fraction <<num, den>> of one turn, so 2 * pi * p is p turns
TimesInt(p, k) == <<p[1] * k, p[2]>>

\* sin and cos are exact where the angle is a whole number of quarter turns;
\* elsewhere the value is an irrational real, kept as the term that names it
OnQuarter(a) == (4 * a[1]) % a[2] = 0
QuarterOf(a) == ((4 * a[1]) \div a[2]) % 4
SinQuarter == <<0, 1, 0, -1>>
CosQuarter == <<1, 0, -1, 0>>

pt_sin(a) ==
    IF OnQuarter(a) THEN SinQuarter[QuarterOf(a) + 1]
    ELSE [fn |-> "sin", turns |-> a]

pt_cos(a) ==
    IF OnQuarter(a) THEN CosQuarter[QuarterOf(a) + 1]
    ELSE [fn |-> "cos", turns |-> a]

RECURSIVE SeqSum(_)
SeqSum(s) == IF s = <<>> THEN 0 ELSE Head(s) + SeqSum(Tail(s))

Max(a, b) == IF a >= b THEN a ELSE b

\* numpy broadcasting of two shapes of one rank: sizes agree or one of them is 1
Broadcastable(a, b) ==
    /\ Len(a) = Len(b)
    /\ \A j \in 1..Len(a) : a[j] = b[j] \/ a[j] = 1 \/ b[j] = 1

BroadcastShape(a, b) == [j \in 1..Len(a) |-> Max(a[j], b[j])]

\* the index of x that the index idx of the broadcast result reads
Clip(x, idx) == [j \in 1..Len(idx) |-> IF x.shape[j] = 1 THEN 0 ELSE idx[j]]

\* a * b, elementwise with broadcasting
Mul(a, b) ==
    [shape |-> BroadcastShape(a.shape, b.shape),
     data |-> [idx \in Indices(BroadcastShape(a.shape, b.shape)) |->
                  a.data[Clip(a, idx)] * b.data[Clip(b, idx)]]]

RemoveAt(s, axis) == SubSeq(s, 1, axis) \o SubSeq(s, axis + 2, Len(s))

InsertAt(s, axis, v) == SubSeq(s, 1, axis) \o <<v>> \o SubSeq(s, axis + 1, Len(s))

\* x.sum(axis=axis), axis counted from 0
TensorSum(x, axis) ==
    [shape |-> RemoveAt(x.shape, axis),
     data |-> [idx \in Indices(RemoveAt(x.shape, axis)) |->
                  SeqSum([h \in 1..x.shape[axis + 1] |->
                             x.data[InsertAt(idx, axis, h - 1)]])]]

\* create_dim_handler(desired_dims)(x, dims): x laid out along desired_dims,
\* each of its axes moved to the place of the same name and an axis of size 1
\* put where x has no axis of that name
HandledShape(desired_dims, shape, dims) ==
    [j \in 1..Len(desired_dims) |->
        IF desired_dims[j] \in Range(dims)
        THEN shape[Index(dims, desired_dims[j]) + 1] ELSE 1]

dim_handler(desired_dims, x, dims) ==
    [shape |-> HandledShape(desired_dims, x.shape, dims),
     data |-> [idx \in Indices(HandledShape(desired_dims, x.shape, dims)) |->
                  x.data[[i \in 1..Len(dims) |->
                             idx[Index(desired_dims, dims[i]) + 1]]]]]

-----------------------------------------------------------------------------
(* generate_fourier_modes *)

\* variant that concatenates the cosines before the sines
generate_fourier_modes_Mutant(periods, n_order) ==
    LET L == Len(periods)
        values == [idx \in Indices(<<L, n_order>>) |->
                       TimesInt(periods[idx[1] + 1], idx[2] + 1)]
    IN  [shape |-> <<L, 2 * n_order>>,
         data |-> [idx \in Indices(<<L, 2 * n_order>>) |->
                      IF idx[2] < n_order
                      THEN pt_cos(values[idx])
                      ELSE pt_sin(values[<<idx[1], idx[2] - n_order>>])]]

\* variant whose cosines are taken one multiple further than the sines
generate_fourier_modes_Unpaired(periods, n_order) ==
    LET L == Len(periods)
        values == [idx \in Indices(<<L, n_order + 1>>) |->
                       TimesInt(periods[idx[1] + 1], idx[2] + 1)]
    IN  [shape |-> <<L, n_order + n_order>>,
         data |-> [idx \in Indices(<<L, n_order + n_order>>) |->
                      IF idx[2] < n_order
                      THEN pt_sin(values[idx])
                      ELSE pt_cos(values[<<idx[1], idx[2] - n_order + 1>>])]]

\* multiples = arange(1, n_order + 1); x = 2 * pi * periods
\* values = x[:, None] * multiples
\* concatenate([sin(values), cos(values)], axis=1)
generate_fourier_modes(periods, n_order) ==
    LET L == Len(periods)
        multiples == [c \in 0..(n_order - 1) |-> 1 + c]
        values == [idx \in Indices(<<L, n_order>>) |->
                       TimesInt(periods[idx[1] + 1], multiples[idx[2]])]
    IN  [shape |-> <<L, n_order + n_order>>,
         data |-> [idx \in Indices(<<L, n_order + n_order>>) |->
                      IF idx[2] < n_order
                      THEN pt_sin(values[idx])
                      ELSE pt_cos(values[<<idx[1], idx[2] - n_order>>])]]

\* periods on the quarter-turn grid and eighths off it, negative and beyond
\* one period included
PeriodInputs == {<<q, 4>> : q \in -5..5} \cup {<<-3, 8>>, <<1, 8>>, <<9, 8>>}

PeriodsInputs == UNION {[1..L -> PeriodInputs] : L \in 0..MaxRows}

\* a caller evaluates generate_fourier_modes(periods, n_order)
GenerateFourierModes ==
    /\ call.op = "input"
    /\ call' = [call EXCEPT !.op = "generate_fourier_modes"]
    /\ ret' = generate_fourier_modes(call.periods, call.n_order)
    /\ UNCHANGED <<priors, fourier, model, raised>>

-----------------------------------------------------------------------------
(* FourierBase.nodes *)

\* variant with the loops swapped: sin_1, cos_1, sin_2, cos_2, ...
nodes_Mutant(n_order) ==
    [j \in 1..(2 * n_order) |->
        (IF j % 2 = 1 THEN "sin" ELSE "cos") \o "_" \o ToString((j + 1) \div 2)]

\* [f"{func}_{i}" for func in ["sin", "cos"] for i in range(1, n_order + 1)]
nodes(n_order) ==
    LET inner(func) == [i \in 1..n_order |-> func \o "_" \o ToString(i)]
    IN  inner("sin") \o inner("cos")

\* the caller reads fourier.nodes of the component it has built
Nodes ==
    /\ fourier # Unbound
    /\ call.op = "__init__"
    /\ call' = [op |-> "nodes"]
    /\ raised' = NoError
    /\ ret' = nodes(fourier.n_order)
    /\ UNCHANGED <<priors, fourier, model>>

-----------------------------------------------------------------------------
(* Prior objects *)

DEFAULT_PRIOR == "default_prior"    \* FourierBase.default_prior, shared by all
CALLER_PRIOR == "prior"             \* the Prior the caller built
OWN_PRIOR == "self.prior"           \* the deep copy the held component made

class_prefix == "fourier"

-----------------------------------------------------------------------------
(* FourierBase.__init__ *)

\* variant with the comparison off by one: n_order = 0 is accepted
InvalidOrder_Mutant(n_order) == n_order.type # "int" \/ n_order.halves < 0

\* not isinstance(n_order, int) or n_order < 1
InvalidOrder(n_order) == n_order.type # "int" \/ n_order.halves < 2

\* variant without the name check
NameCollision_Mutant(variable_name, prefix) == FALSE

\* self.variable_name == self.prefix
NameCollision(variable_name, prefix) == variable_name = prefix

\* variant without the dims check
MissingAxis_Mutant(prefix, dims) == FALSE

\* self.prefix not in self.prior.dims
MissingAxis(prefix, dims) == prefix \notin Range(dims)

\* variant without the deepcopy: dims is assigned on the Prior given
OwnPrior_Mutant(heap, p, prefix) ==
    IF heap[p] = <<>>
    THEN [heap |-> [heap EXCEPT ![p] = <<prefix>>], prior |-> p]
    ELSE [heap |-> heap, prior |-> p]

\* if not self.prior.dims: self.prior = self.prior.deepcopy();
\*                         self.prior.dims = self.prefix
\* The dims setter of Prior turns the str into the 1-tuple (prefix,).
OwnPrior(heap, p, prefix) ==
    IF heap[p] = <<>>
    THEN [heap |-> [q \in (DOMAIN heap) \cup {OWN_PRIOR} |->
                        IF q = OWN_PRIOR THEN <<prefix>> ELSE heap[q]],
          prior |-> OWN_PRIOR]
    ELSE [heap |-> heap, prior |-> p]

\* the body of __init__: the error raised, the heap it leaves and, when it
\* returns, the attributes of self
FourierInit(heap, cls, n_order, prefix, prior, name) ==
    LET self_prefix == IF Truthy(prefix) THEN prefix ELSE class_prefix
        given == IF prior # None THEN prior ELSE DEFAULT_PRIOR
        variable_name == IF Truthy(name) THEN name ELSE self_prefix \o "_beta"
        own == OwnPrior(heap, given, self_prefix)
        self == [cls |-> cls,
                 n_order |-> n_order.halves \div 2,
                 prefix |-> self_prefix,
                 prior |-> own.prior,
                 variable_name |-> variable_name]
    IN  IF InvalidOrder(n_order)
        THEN [raised |-> "InvalidOrder", heap |-> heap, self |-> Unbound]
        ELSE IF NameCollision(variable_name, self_prefix)
        THEN [raised |-> "NameCollision", heap |-> heap, self |-> Unbound]
        ELSE IF MissingAxis(self_prefix, own.heap[own.prior])
        THEN [raised |-> "MissingAxis", heap |-> own.heap, self |-> Unbound]
        ELSE [raised |-> NoError, heap |-> own.heap, self |-> self]

\* the objects still referenced once the caller has dropped its component
Live(heap) == [p \in (DOMAIN heap) \ {OWN_PRIOR} |-> heap[p]]

Start == [op |-> "start"]

\* fourier = cls(n_order, prefix, prior, name), the first statement of a
\* caller's scope (as in each test function): a raise leaves nothing bound
Construct(cls, n_order, prefix, prior, name) ==
    LET r == FourierInit(priors, cls, n_order, prefix, prior, name)
    IN  /\ call = Start
        /\ call' = [op |-> "__init__", cls |-> cls, n_order |-> n_order,
                    prefix |-> prefix, prior |-> prior, name |-> name]
        /\ raised' = r.raised
        /\ priors' = r.heap
        /\ fourier' = r.self
        /\ ret' = IF r.raised = NoError THEN r.self ELSE NoValue
        /\ UNCHANGED model

\* the caller's scope ends: its component and model context are dropped, the
\* class attribute default_prior and the caller's Prior live on
Leave ==
    /\ call # Start
    /\ call' = Start
    /\ priors' = Live(priors)
    /\ fourier' = Unbound
    /\ model' = NoModel
    /\ raised' = NoError
    /\ ret' = NoValue

-----------------------------------------------------------------------------
(* The pm.Model context the caller works in *)

\* the labels a caller gives each axis; under the name fourier they are the
\* nodes of n_order = 1
CoordValues(name) ==
    CASE name = "hierarchy" -> <<"h0", "h1">>
      [] name = "seasonality" -> <<"s0", "s1", "s2">>
      [] name = "fourier" -> <<"sin_1", "cos_1">>

CoordsInputs ==
    {[name \in S |-> CoordValues(name)] :
        S \in {AxisNames, AxisNames \ {"fourier"}, AxisNames \ {"seasonality"}}}

\* with pm.Model(coords=coords):
EnterModel(coords) ==
    /\ fourier # Unbound
    /\ ~model.active
    /\ model' = [active |-> TRUE, coords |-> coords, vars |-> {}]
    /\ call' = [op |-> "pm.Model"]
    /\ raised' = NoError
    /\ ret' = NoValue
    /\ UNCHANGED <<priors, fourier>>

\* variant that refuses every coordinate that exists already
add_coord_Mutant(mdl, name, values) ==
    IF name \in DOMAIN mdl.coords
    THEN [raised |-> "DuplicateCoord", model |-> mdl]
    ELSE [raised |-> NoError,
          model |-> [mdl EXCEPT !.coords =
                        [c \in (DOMAIN mdl.coords) \cup {name} |->
                            IF c = name THEN values ELSE mdl.coords[c]]]]

\* model.add_coord(name, values): a coordinate that exists with other values
\* is refused
add_coord(mdl, name, values) ==
    IF name \in DOMAIN mdl.coords /\ mdl.coords[name] # values
    THEN [raised |-> "DuplicateCoord", model |-> mdl]
    ELSE [raised |-> NoError,
          model |-> [mdl EXCEPT !.coords =
                        [c \in (DOMAIN mdl.coords) \cup {name} |->
                            IF c = name THEN values ELSE mdl.coords[c]]]]

\* prior.create_variable(name): registers the random variable; refused when
\* the name is taken or a dim has no coordinate in the model
create_variable(mdl, dims, name) ==
    IF name \in mdl.vars \/ ~(Range(dims) \subseteq DOMAIN mdl.coords)
    THEN [raised |-> "CreateVariableError", model |-> mdl, shape |-> <<>>]
    ELSE [raised |-> NoError,
          model |-> [mdl EXCEPT !.vars = @ \cup {name}],
          shape |-> [i \in 1..Len(dims) |-> Len(mdl.coords[dims[i]])]]

-----------------------------------------------------------------------------
(* FourierBase.apply *)

DAYS_IN_YEAR == 23376       \* 365.25 days, in 1/64 of a day
DAYS_IN_MONTH == 1948       \* 365.25 / 12 days, in 1/64 of a day

days_in_period(cls) == IF cls = "YearlyFourier" THEN DAYS_IN_YEAR ELSE DAYS_IN_MONTH

DUMMY_DIM == "DATE"

\* the value a draw gives the weight variable: one of a few tensors whose
\* entries differ along every axis
BetaSeeds == {1, 2}

BetaValue(idx, seed) ==
    (((SeqSum([i \in 1..Len(idx) |-> idx[i] * (7 ^ (i - 1))]) + 1) * seed) % 11) - 5

BetaDraw(shape, seed) ==
    [shape |-> shape, data |-> [idx \in Indices(shape) |-> BetaValue(idx, seed)]]

\* variant that forgets the leading sample axis
SumAxis_Mutant(prefix_idx) == prefix_idx

\* result.sum(axis=prefix_idx + 1)
SumAxis(prefix_idx) == prefix_idx + 1

\* variant that takes the harmonic axis to be the first declared axis
FeatureDims_Mutant(prefix, dims) == <<DUMMY_DIM, dims[1]>>

\* the dims apply gives the Fourier modes: (DUMMY_DIM, self.prefix)
FeatureDims(prefix, dims) == <<DUMMY_DIM, prefix>>

\* the part of apply that does not depend on the values: the error raised,
\* the model it leaves, and the shapes and axis names of its tensors
ApplyPlan(self, heap, mdl, n_rows) ==
    LET dims == heap[self.prior]
        coord == add_coord(mdl, self.prefix, nodes(self.n_order))
        var == create_variable(coord.model, dims, self.variable_name)
        prefix_idx == Index(dims, self.prefix)
        result_dims == <<DUMMY_DIM>> \o dims
        left == HandledShape(result_dims, <<n_rows, self.n_order + self.n_order>>,
                             FeatureDims(self.prefix, dims))
        right == HandledShape(result_dims, var.shape, dims)
        failed(err, m) == [raised |-> err, model |-> m]
    IN  IF coord.raised # NoError THEN failed(coord.raised, coord.model)
        ELSE IF var.raised # NoError THEN failed(var.raised, var.model)
        ELSE IF prefix_idx < 0 THEN failed("ValueError", var.model)
        ELSE IF ~Broadcastable(left, right) THEN failed("ShapeError", var.model)
        ELSE [raised |-> NoError,
              model |-> var.model,
              beta_shape |-> var.shape,
              prefix_idx |-> prefix_idx,
              result_dims |-> result_dims,
              shape |-> RemoveAt(BroadcastShape(left, right), SumAxis(prefix_idx)),
              dims |-> RemoveAt(result_dims, SumAxis(prefix_idx))]

\* variant that hands the product over whether or not a callback was given
result_callback_Mutant(with_callback, result) == <<result>>

\* if result_callback is not None: result_callback(result)
\* the tensors the callback is called with, in the order of its calls
result_callback(with_callback, result) ==
    IF with_callback THEN <<result>> ELSE <<>>

\* the body of apply: the error raised, the model it leaves, the tensor the
\* callback saw and the tensor returned, with the names of its axes
FourierApply(self, heap, mdl, dayofyear, seed, with_callback) ==
    LET plan == ApplyPlan(self, heap, mdl, Len(dayofyear))
        dims == heap[self.prior]
        periods == [r \in 1..Len(dayofyear) |->
                       <<dayofyear[r], days_in_period(self.cls)>>]
        beta == BetaDraw(plan.beta_shape, seed)
        fourier_modes == generate_fourier_modes(periods, self.n_order)
        result == Mul(dim_handler(plan.result_dims, fourier_modes,
                                  FeatureDims(self.prefix, dims)),
                      dim_handler(plan.result_dims, beta, dims))
    IN  IF plan.raised # NoError
        THEN [raised |-> plan.raised, model |-> plan.model, beta |-> NoValue,
              seen |-> <<>>, value |-> NoValue, dims |-> <<>>]
        ELSE [raised |-> NoError,
              model |-> plan.model,
              beta |-> beta,
              seen |-> result_callback(with_callback, result),
              value |-> TensorSum(result, SumAxis(plan.prefix_idx)),
              dims |-> plan.dims]

\* dayofyear arrays that step through the quarters of the component's period
DayofyearInputs(cls) ==
    {[r \in 1..L |-> r * (days_in_period(cls) \div 4)] : L \in 1..MaxRows}

\* fourier.apply(dayofyear, result_callback) inside the model context, the
\* weight variable drawing BetaDraw(shape, seed); a caller applies once, or
\* once more with the same arguments
Apply(dayofyear, seed, with_callback) ==
    LET r == FourierApply(fourier, priors, model, dayofyear, seed, with_callback)
        args == [dayofyear |-> dayofyear, seed |-> seed,
                 result_callback |-> with_callback]
    IN  /\ fourier # Unbound
        /\ model.active
        /\ call.op = "apply" => call.args = args
        /\ call' = [op |-> "apply", args |-> args, beta |-> r.beta]
        /\ raised' = r.raised
        /\ model' = r.model
        /\ ret' = [value |-> r.value, dims |-> r.dims, seen |-> r.seen]
        /\ UNCHANGED <<priors, fourier>>

-----------------------------------------------------------------------------
(* FourierBase.sample_prior *)

\* the coords argument is <<>> for None and <<d>> for the dict d, a function
\* from axis names to label tuples
NoDict == <<>>
EmptyDict == [key \in {} |-> <<>>]

\* the number of draws of one call (the keyword samples), in one chain
Samples == 2

\* coords or {}: the caller's dict unless it is None or empty
CoordsOrEmpty(coords) ==
    IF coords = NoDict \/ DOMAIN coords[1] = {} THEN EmptyDict ELSE coords[1]

\* variant that keeps an entry the dict has already (setdefault)
SetItem_Mutant(d, key, value) ==
    [k \in (DOMAIN d) \cup {key} |-> IF k \in DOMAIN d THEN d[k] ELSE value]

\* d[key] = value
SetItem(d, key, value) ==
    [k \in (DOMAIN d) \cup {key} |-> IF k = key THEN value ELSE d[k]]

\* prior.sample_prior(coords, name): a model over coords in which the
\* variable is created over the dims of the prior and drawn; dims without
\* coordinates are refused
prior_sample_prior(dims, coords, name) ==
    IF ~(Range(dims) \subseteq DOMAIN coords)
    THEN [raised |-> "KeyError", prior |-> NoValue]
    ELSE [raised |-> NoError,
          prior |-> [vars |-> (name :> (<<"chain", "draw">> \o dims)),
                     coords |-> <<"chain", "draw">> \o dims,
                     sizes |-> [c \in {"chain", "draw"} \cup Range(dims) |->
                                   CASE c = "chain" -> 1
                                     [] c = "draw" -> Samples
                                     [] OTHER -> Len(coords[c])]]]

\* the body of sample_prior: the error raised, the arguments handed to the
\* Prior, the dataset returned, and the caller's dict as the call leaves it
\* (the assignment is made on the caller's own dict when it is not empty)
FourierSamplePrior(self, heap, coords) ==
    LET dict == SetItem(CoordsOrEmpty(coords), self.prefix, nodes(self.n_order))
        r == prior_sample_prior(heap[self.prior], dict, self.variable_name)
    IN  [raised |-> r.raised,
         coords |-> dict,
         name |-> self.variable_name,
         prior |-> r.prior,
         left |-> IF coords = NoDict \/ DOMAIN coords[1] = {} THEN coords
                  ELSE <<dict>>]

SamplePriorInputs == {NoDict, <<EmptyDict>>} \cup {<<d>> : d \in CoordsInputs}

\* prior = fourier.sample_prior(coords=coords, samples=Samples)
SamplePrior(coords) ==
    LET r == FourierSamplePrior(fourier, priors, coords)
    IN  /\ fourier # Unbound
        /\ call.op = "__init__"
        /\ call' = [op |-> "sample_prior", coords |-> coords, left |-> r.left,
                    passed |-> [coords |-> r.coords, name |-> r.name]]
        /\ raised' = r.raised
        /\ ret' = r.prior
        /\ UNCHANGED <<priors, fourier, model>>

-----------------------------------------------------------------------------
(* FourierBase.sample_curve *)

Day == 64       \* one day, in 1/64 of a day

\* variant that stops at the last whole day below stop - 1
np_arange_Mutant(stop) == [r \in 1..(stop \div Day) |-> (r - 1) * Day]

\* np.arange(stop) for a float stop: 0.0, 1.0, ... below stop, ceil(stop) values
np_arange(stop) == [r \in 1..((stop + Day - 1) \div Day) |-> (r - 1) * Day]

Reverse(s) == [i \in 1..Len(s) |-> s[Len(s) + 1 - i]]

\* a parameter dataset that holds samples of the component's weight variable
\* over (chain, draw, *dims), with a coordinate for each of its axes; the
\* dataset lists the coordinates in `order` and may hold another variable
\* with an axis of its own
SampleOf(self, dims, order, extra) ==
    [vars |-> IF extra
              THEN (self.variable_name :> (<<"chain", "draw">> \o dims))
                       @@ ("another_larger_variable" :>
                               <<"chain", "draw", "additional_dim">>)
              ELSE (self.variable_name :> (<<"chain", "draw">> \o dims)),
     coords |-> <<"chain", "draw">> \o order
                    \o (IF extra THEN <<"additional_dim">> ELSE <<>>),
     sizes |-> [c \in {"chain", "draw", "additional_dim"} \cup Range(dims) |->
                   CASE c = "chain" -> 1
                     [] c = "draw" -> 2
                     [] c = "additional_dim" -> 4
                     [] c = self.prefix -> 2 * self.n_order
                     [] OTHER -> Len(CoordValues(c))]]

\* a dataset without the weight variable
Unrelated ==
    [vars |-> ("another_larger_variable" :> <<"chain", "draw", "additional_dim">>),
     coords |-> <<"chain", "draw", "additional_dim">>,
     sizes |-> [c \in {"chain", "draw", "additional_dim"} |->
                   CASE c = "chain" -> 1 [] c = "draw" -> 2 [] OTHER -> 4]]

ParametersInputs(self, dims) ==
    {SampleOf(self, dims, order, extra) :
        order \in {dims, Reverse(dims)}, extra \in BOOLEAN} \cup {Unrelated}

\* variant that takes every coordinate of the dataset
CoordsOf_Mutant(parameters, name) == parameters.coords

\* parameters[name].coords: the dataset's coordinates over axes of the
\* variable, in the order the dataset lists them
CoordsOf(parameters, name) ==
    LET OnVariable(c) == c \in Range(parameters.vars[name])
    IN  SelectSeq(parameters.coords, OnVariable)

\* the body of sample_curve: the error raised and the labelled curve, with
\* the axes the curve tensor really ranges over. The whole days of a period
\* are off the quarter grid, so the curve is kept by its labels and shape.
FourierSampleCurve(self, heap, parameters) ==
    LET full_period == np_arange(days_in_period(self.cls) + Day)
        Kept(key) == key \notin {"chain", "draw", self.prefix}
        keys == <<"day">> \o SelectSeq(CoordsOf(parameters, self.variable_name), Kept)
        coords == [key \in Range(keys) |->
                      IF key = "day" THEN full_period
                      ELSE [i \in 1..parameters.sizes[key] |-> i - 1]]
        r == ApplyPlan(self, heap,
                       [active |-> TRUE, coords |-> coords, vars |-> {}],
                       Len(full_period))
        shape == r.shape
        labelled == [i \in 1..Len(keys) |-> Len(coords[keys[i]])]
        failed(err) == [raised |-> err, curve |-> NoValue]
    IN  IF self.variable_name \notin DOMAIN parameters.vars THEN failed("KeyError")
        ELSE IF r.raised # NoError THEN failed(r.raised)
        ELSE IF shape # labelled THEN failed("ShapeMismatch")
        ELSE [raised |-> NoError,
              curve |-> [name |-> self.prefix \o "_trend",
                         dims |-> <<"chain", "draw">> \o keys,
                         sizes |-> <<parameters.sizes["chain"],
                                     parameters.sizes["draw"]>> \o shape,
                         axes |-> <<"chain", "draw", "day">> \o Tail(r.dims),
                         day |-> full_period]]

\* curve = fourier.sample_curve(parameters)
SampleCurve(parameters) ==
    LET r == FourierSampleCurve(fourier, priors, parameters)
    IN  /\ fourier # Unbound
        /\ call.op = "__init__"
        /\ call' = [op |-> "sample_curve", parameters |-> parameters]
        /\ raised' = r.raised
        /\ ret' = r.curve
        /\ UNCHANGED <<priors, fourier, model>>

-----------------------------------------------------------------------------

Init ==
    /\ \E d \in DimsInputs :
           priors = [p \in {DEFAULT_PRIOR, CALLER_PRIOR} |->
                         IF p = DEFAULT_PRIOR THEN <<>> ELSE d]
    /\ fourier = Unbound
    /\ model = NoModel
    /\ call = Start
    /\ raised = NoError
    /\ ret = NoValue

Next ==
    \/ \E cls \in Classes, n_order \in OrderInputs, prefix \in PrefixInputs,
          prior \in {None, CALLER_PRIOR}, name \in NameInputs :
           Construct(cls, n_order, prefix, prior, name)
    \/ Nodes
    \/ \E coords \in CoordsInputs : EnterModel(coords)
    \/ \E dayofyear \in DayofyearInputs(fourier.cls), seed \in BetaSeeds,
          with_callback \in BOOLEAN :
           Apply(dayofyear, seed, with_callback)
    \/ \E coords \in SamplePriorInputs : SamplePrior(coords)
    \/ /\ fourier # Unbound
       /\ \E parameters \in ParametersInputs(fourier, priors[fourier.prior]) :
              SampleCurve(parameters)
    \/ Leave

Spec == Init /\ [][Next]_vars

\* generate_fourier_modes is a pure function of its two arguments: the
\* arguments are drawn at the start and the function is applied to them
InitModes ==
    /\ priors = [p \in {DEFAULT_PRIOR} |-> <<>>]
    /\ fourier = Unbound
    /\ model = NoModel
    /\ \E periods \in PeriodsInputs, n_order \in 1..MaxOrder :
           call = [op |-> "input", periods |-> periods, n_order |-> n_order]
    /\ raised = NoError
    /\ ret = NoValue

NextModes == GenerateFourierModes

SpecModes == InitModes /\ [][NextModes]_vars

-----------------------------------------------------------------------------
(* Claims about construction *)

Constructed == call.op = "__init__"

\* what the arguments of the last construction stand for
ArgPrefix == IF call.prefix \in {None, ""} THEN "fourier" ELSE call.prefix
ArgName == IF call.name \in {None, ""} THEN ArgPrefix \o "_beta" ELSE call.name
ArgPrior == IF call.prior = None THEN DEFAULT_PRIOR ELSE call.prior
ArgOrderIsPositiveInteger == \E k \in 1..(MaxOrder + 1) : call.n_order = IntOrder(k)

\* C1: a construction whose n_order is not a positive integer (zero, negative,
\* or a float such as 2.5) raises InvalidOrder and produces no component.
C1_InvalidOrderRaises ==
    (Constructed /\ ~ArgOrderIsPositiveInteger)
        => (raised = "InvalidOrder" /\ fourier = Unbound /\ ret = NoValue)

C1_Witness ==
    Constructed /\ call.n_order = FloatOrder(5) /\ raised = "InvalidOrder"

\* C2 as stated: a prior whose dims are non-empty and lack the prefix makes
\* the construction raise MissingAxis, whatever the other arguments are.
C2_Original ==
    (Constructed /\ priors[ArgPrior] # <<>> /\ ArgPrefix \notin Range(priors[ArgPrior]))
        => raised = "MissingAxis"

\* C2 amended: such a prior makes every construction fail with no component
\* produced; the error is MissingAxis when n_order is a positive integer and
\* the variable name differs from the prefix, and otherwise the error of the
\* earlier check (InvalidOrder, then NameCollision).
C2_MissingAxisRaises ==
    (Constructed /\ priors[ArgPrior] # <<>> /\ ArgPrefix \notin Range(priors[ArgPrior]))
        => /\ fourier = Unbound
           /\ raised = IF ~ArgOrderIsPositiveInteger THEN "InvalidOrder"
                       ELSE IF ArgName = ArgPrefix THEN "NameCollision"
                       ELSE "MissingAxis"

C2_Witness ==
    /\ Constructed /\ raised = "MissingAxis"
    /\ call.prefix = "seasonality"
    /\ priors[CALLER_PRIOR] = <<"hierarchy", "fourier">>

\* C3 as stated: a variable name equal to the prefix makes the construction
\* raise NameCollision, and otherwise a successful construction keeps the name.
C3_Original ==
    Constructed =>
        /\ ArgName = ArgPrefix => raised = "NameCollision"
        /\ (ArgName # ArgPrefix /\ raised = NoError) => fourier.variable_name = ArgName

\* C3 amended: when n_order is a positive integer, a variable name equal to
\* the prefix makes the construction raise NameCollision (an invalid n_order
\* raises InvalidOrder first); when the names differ and the construction
\* succeeds, variable_name is the given name, or <prefix>_beta when none is given.
C3_NameCollisionRaises ==
    Constructed =>
        /\ ArgName = ArgPrefix =>
               /\ fourier = Unbound
               /\ raised = IF ArgOrderIsPositiveInteger
                           THEN "NameCollision" ELSE "InvalidOrder"
        /\ (ArgName # ArgPrefix /\ raised = NoError) => fourier.variable_name = ArgName

C3_Witness ==
    /\ Constructed /\ raised = "NameCollision"
    /\ call.name = "seasonality" /\ call.prefix = "seasonality"

C3_WitnessKept ==
    /\ Constructed /\ raised = NoError
    /\ call.name = "fourier" /\ call.prefix = "seasonality"
    /\ fourier.variable_name = "fourier"

\* C4: construction never changes a Prior it is given: default_prior keeps no
\* dims and the caller's Prior keeps its dims through every step, and a
\* component built from a Prior without dims holds another object whose dims
\* are exactly (prefix,).
C4_PriorNotModified ==
    /\ [](priors[DEFAULT_PRIOR] = <<>>)
    /\ [][priors'[CALLER_PRIOR] = priors[CALLER_PRIOR]]_vars
    /\ []((Constructed /\ raised = NoError /\ priors[ArgPrior] = <<>>)
            => /\ fourier.prior # ArgPrior
               /\ priors[fourier.prior] = <<fourier.prefix>>)

C4_Witness ==
    /\ Constructed /\ raised = NoError
    /\ call.prior = CALLER_PRIOR /\ priors[CALLER_PRIOR] = <<>>
    /\ fourier.prefix = "seasonality"
    /\ priors[fourier.prior] = <<"seasonality">>

-----------------------------------------------------------------------------
(* Claims about the node labels and the feature matrix *)

\* the value of the function a node label names, at period p
Named(label, p) ==
    LET k == CHOOSE k \in 1..(MaxOrder + 1) :
                 label \in {"sin_" \o ToString(k), "cos_" \o ToString(k)}
    IN  IF label = "sin_" \o ToString(k)
        THEN pt_sin(TimesInt(p, k)) ELSE pt_cos(TimesInt(p, k))

\* C5: nodes is sin_1 .. sin_n_order followed by cos_1 .. cos_n_order:
\* 2 * n_order labels, all distinct, the sines first, each group in
\* increasing order of the multiple.
C5_NodesOrder ==
    call.op = "nodes" =>
        LET n == fourier.n_order
        IN  /\ n >= 1
            /\ Len(ret) = 2 * n
            /\ \A i, j \in 1..Len(ret) : i # j => ret[i] # ret[j]
            /\ \A k \in 1..n : /\ ret[k] = "sin_" \o ToString(k)
                               /\ ret[n + k] = "cos_" \o ToString(k)

C5_Witness ==
    /\ call.op = "nodes" /\ fourier.n_order = 2
    /\ ret = <<"sin_1", "sin_2", "cos_1", "cos_2">>

\* C6: generate_fourier_modes returns shape (L, 2 * n_order); column k - 1
\* is the sine and column n_order + k - 1 the cosine of 2 * pi * p * k, and
\* column j is the function that nodes[j] names.
C6_ModesAlignWithNodes ==
    call.op = "generate_fourier_modes" =>
        LET n == call.n_order
            L == Len(call.periods)
        IN  /\ ret.shape = <<L, 2 * n>>
            /\ DOMAIN ret.data = Indices(<<L, 2 * n>>)
            /\ \A r \in 0..(L - 1), k \in 1..n :
                   /\ ret.data[<<r, k - 1>>] = pt_sin(TimesInt(call.periods[r + 1], k))
                   /\ ret.data[<<r, n + k - 1>>] = pt_cos(TimesInt(call.periods[r + 1], k))
            /\ \A r \in 0..(L - 1), j \in 0..(2 * n - 1) :
                   ret.data[<<r, j>>] = Named(nodes(n)[j + 1], call.periods[r + 1])

C6_Witness ==
    /\ call.op = "generate_fourier_modes"
    /\ call.n_order = 2 /\ call.periods = <<<<1, 4>>, <<-3, 4>>>>
    /\ ret.shape = <<2, 4>>
    /\ [j \in 0..3 |-> ret.data[<<0, j>>]] = [j \in 0..3 |-> <<1, 0, 0, -1>>[j + 1]]

\* the entry is one of the exact values of SinQuarter and CosQuarter, not a
\* term that names an irrational one
IsExact(v) == ToString(v) \in {"-1", "0", "1"}

\* s * s + c * c = 1 for a sine entry s and a cosine entry c: by arithmetic
\* where both are exact, and elsewhere because they are the sine and the
\* cosine of one and the same angle
Pythagorean(s, c) ==
    IF IsExact(s) /\ IsExact(c) THEN s * s + c * c = 1
    ELSE IF ~IsExact(s) /\ ~IsExact(c)
    THEN s.fn = "sin" /\ c.fn = "cos" /\ s.turns = c.turns
    ELSE FALSE

\* -1 <= v <= 1: an exact entry by comparison, any other as a sine or cosine
\* of a real angle
InUnitInterval(v) ==
    IF IsExact(v) THEN -1 <= v /\ v <= 1 ELSE v.fn \in {"sin", "cos"}

\* C13: in the feature matrix, for every row and every k in 1..n_order, the
\* square of the sin_k entry plus the square of the cos_k entry is 1, and
\* every entry lies in [-1, 1], for negative periods and periods above 1 too.
\* The identity is exact in the reals, hence within any tolerance.
C13_Pythagoras ==
    call.op = "generate_fourier_modes" =>
        LET n == call.n_order
            L == Len(call.periods)
        IN  /\ \A r \in 0..(L - 1), k \in 1..n :
                   Pythagorean(ret.data[<<r, k - 1>>], ret.data[<<r, n + k - 1>>])
            /\ \A idx \in DOMAIN ret.data : InUnitInterval(ret.data[idx])

\* a negative period off the grid and a period above 1 on it
C13_Witness ==
    /\ call.op = "generate_fourier_modes"
    /\ call.n_order = 2 /\ call.periods = <<<<-3, 8>>, <<5, 4>>>>
    /\ ret.data[<<0, 0>>] = [fn |-> "sin", turns |-> <<-3, 8>>]
    /\ ret.data[<<0, 2>>] = [fn |-> "cos", turns |-> <<-3, 8>>]
    /\ ret.data[<<0, 1>>] = 1 /\ ret.data[<<0, 3>>] = 0
    /\ ret.data[<<1, 0>>] = 1 /\ ret.data[<<1, 2>>] = 0

-----------------------------------------------------------------------------
(* Claims about apply *)

Applied == call.op = "apply" /\ raised = NoError

\* the declared axes of the held component's prior, and those besides the
\* harmonic axis, in declared order
SelfDims == priors[fourier.prior]
OtherDims == LET NotPrefix(a) == a # fourier.prefix IN SelectSeq(SelfDims, NotPrefix)
OtherShape == [i \in 1..Len(OtherDims) |-> Len(model.coords[OtherDims[i]])]

\* C7: apply returns a tensor over the sample axis followed by the prior's
\* non-harmonic axes in declared order, wherever the harmonic axis is
\* declared: the summation removes the harmonic axis and no other.
C7_ApplyAxes ==
    Applied =>
        /\ ret.dims = <<DUMMY_DIM>> \o OtherDims
        /\ fourier.prefix \notin Range(ret.dims)
        /\ Len(ret.dims) = Len(SelfDims)
        /\ ret.value.shape = <<Len(call.args.dayofyear)>> \o OtherShape
        /\ DOMAIN ret.value.data = Indices(ret.value.shape)

C7_Witness ==
    /\ Applied
    /\ SelfDims = <<"hierarchy", "fourier", "seasonality">>
    /\ fourier.prefix = "fourier" /\ fourier.n_order = 2
    /\ ret.dims = <<"DATE", "hierarchy", "seasonality">>
    /\ ret.value.shape = <<2, 2, 3>>

\* the index of the weight tensor that holds harmonic h and the entries o of
\* the other axes, found by the names of the declared axes
WeightIndex(h, o) ==
    [i \in 1..Len(SelfDims) |->
        IF SelfDims[i] = fourier.prefix THEN h
        ELSE o[Cardinality({j \in 1..i : SelfDims[j] # fourier.prefix})]]

\* C8: features and weights are paired by axis name: the output at sample s
\* and index o of the non-harmonic axes is the sum over the harmonics h of
\* feature[s, h] * weight[h, o], wherever the harmonic axis is declared.
C8_ContractionByName ==
    Applied =>
        LET n == fourier.n_order
            periods == [r \in 1..Len(call.args.dayofyear) |->
                           <<call.args.dayofyear[r], days_in_period(fourier.cls)>>]
            feature == generate_fourier_modes(periods, n)
        IN  /\ DOMAIN ret.value.data = Indices(<<Len(periods)>> \o OtherShape)
            /\ \A s \in 0..(Len(periods) - 1), o \in Indices(OtherShape) :
                   ret.value.data[<<s>> \o o] =
                       SeqSum([h \in 1..(2 * n) |->
                                  feature.data[<<s, h - 1>>]
                                      * call.beta.data[WeightIndex(h - 1, o)]])

C8_Witness ==
    /\ Applied
    /\ SelfDims = <<"hierarchy", "seasonality">>
    /\ fourier.prefix = "seasonality" /\ fourier.n_order = 2
    /\ Len(call.args.dayofyear) = 2
    /\ \E idx \in DOMAIN ret.value.data : ret.value.data[idx] # 0

\* what the last apply gives in a model scope with the same coordinates in
\* which no variable is registered
FreshApply ==
    FourierApply(fourier, priors, [model EXCEPT !.vars = {}],
                 call.args.dayofyear, call.args.seed, call.args.result_callback)

\* C12 as stated: an apply gives what it gives in a scope where nothing was
\* applied before, also when it is the second one in its model scope.
C12_Original ==
    call.op = "apply" =>
        /\ raised = FreshApply.raised
        /\ ret.value = FreshApply.value

\* C12 amended: apply changes neither the component nor any Prior, and what a
\* successful apply returns is what the same call returns in another model
\* scope with the same coordinates, the harmonic coordinate the first call
\* added included. It does change the model scope it runs in: the weight
\* variable is registered under variable_name, so a second apply in the same
\* scope raises and returns nothing, leaving the scope as it was.
C12_Idempotence ==
    /\ [][(call'.op = "apply") => (priors' = priors /\ fourier' = fourier)]_vars
    /\ [](Applied =>
            /\ FreshApply.raised = NoError
            /\ FreshApply.value = ret.value
            /\ FreshApply.dims = ret.dims
            /\ fourier.variable_name \in model.vars
            /\ model.coords[fourier.prefix] = nodes(fourier.n_order))
    /\ [][(call.op = "apply" /\ raised = NoError /\ call'.op = "apply")
            => (/\ raised' = "CreateVariableError"
                /\ ret'.value = NoValue
                /\ model' = model)]_vars

\* a second apply in the scope of a successful first one
C12_Witness ==
    /\ call.op = "apply"
    /\ raised = "CreateVariableError"
    /\ fourier.variable_name \in model.vars
    /\ FreshApply.raised = NoError

\* the sizes of the declared axes of the prior in the model of the last apply
SelfShape == [i \in 1..Len(SelfDims) |-> Len(model.coords[SelfDims[i]])]

\* what the last apply gives with the callback argument the other way round
OtherWay ==
    FourierApply(fourier, priors, [model EXCEPT !.vars = {}],
                 call.args.dayofyear, call.args.seed, ~call.args.result_callback)

\* C15: an apply that returns has called the callback once when one was
\* given and not at all otherwise, and an apply that raises has not called
\* it; the callback receives the product before the sum: a tensor over the
\* sample axis followed by the declared axes of the prior, harmonic axis
\* included, whose entry is feature times weight, and the value returned is
\* its sum over the harmonic axis, the same with and without a callback.
C15_ResultCallback ==
    /\ (call.op = "apply" /\ raised # NoError) => ret.seen = <<>>
    /\ Applied =>
           LET n == fourier.n_order
               prefix_idx == Index(SelfDims, fourier.prefix)
               periods == [r \in 1..Len(call.args.dayofyear) |->
                              <<call.args.dayofyear[r], days_in_period(fourier.cls)>>]
               feature == generate_fourier_modes(periods, n)
               shape == <<Len(periods)>> \o SelfShape
           IN  /\ Len(ret.seen) = IF call.args.result_callback THEN 1 ELSE 0
               /\ \A c \in 1..Len(ret.seen) :
                      /\ ret.seen[c].shape = shape
                      /\ shape[prefix_idx + 2] = 2 * n
                      /\ DOMAIN ret.seen[c].data = Indices(shape)
                      /\ \A idx \in Indices(shape) :
                             ret.seen[c].data[idx] =
                                 feature.data[<<idx[1], idx[prefix_idx + 2]>>]
                                     * call.beta.data[Tail(idx)]
                      /\ ret.value = TensorSum(ret.seen[c], prefix_idx + 1)
               /\ OtherWay.raised = NoError
               /\ Len(OtherWay.seen) = IF call.args.result_callback THEN 0 ELSE 1
               /\ OtherWay.value = ret.value
               /\ OtherWay.dims = ret.dims

\* a callback that saw a product over (DATE, hierarchy, fourier) whose sum
\* over the harmonic axis is not zero everywhere
C15_Witness ==
    /\ Applied /\ call.args.result_callback
    /\ SelfDims = <<"hierarchy", "fourier">>
    /\ fourier.n_order = 2
    /\ Len(ret.seen) = 1
    /\ ret.seen[1].shape = <<2, 2, 4>>
    /\ ret.value.shape = <<2, 2>>
    /\ \E idx \in DOMAIN ret.value.data : ret.value.data[idx] # 0

\* an apply without a callback
C15_WitnessNone ==
    Applied /\ ~call.args.result_callback /\ ret.seen = <<>>

ConstructionErrors == {"InvalidOrder", "NameCollision", "MissingAxis"}

\* C9: misconfigurations fail at construction, before any computation: the
\* three errors are raised by construction steps only and leave no component
\* to apply, every component that exists has n_order >= 1, its prefix among
\* the dims of its prior and a variable name other than its prefix, and apply
\* never fails looking up the harmonic axis.
C9_FailFast ==
    /\ [][raised' \in ConstructionErrors =>
            (call'.op = "__init__" /\ fourier' = Unbound /\ ret' = NoValue)]_vars
    /\ [][(raised \in ConstructionErrors) => (call'.op \in {"__init__", "start"})]_vars
    /\ [](fourier # Unbound =>
            /\ fourier.n_order >= 1
            /\ fourier.prefix \in Range(SelfDims)
            /\ fourier.variable_name # fourier.prefix)
    /\ [](call.op = "apply" => raised # "ValueError")

C9_Witness ==
    /\ Applied
    /\ fourier.prior = CALLER_PRIOR
    /\ Index(SelfDims, fourier.prefix) = 2

-----------------------------------------------------------------------------
(* Claims about sample_curve *)

Sampled == call.op = "sample_curve" /\ raised = NoError

DayPoints == ret.sizes[Index(ret.dims, "day") + 1]

\* C10 as stated: the curve has days_in_period + 1 points on its day axis.
C10_Original ==
    Sampled => DayPoints * Day = days_in_period(fourier.cls) + Day

\* C10 amended: the curve is sampled at the whole days 0, 1, ... up to the
\* first one that reaches the end of the period, which is
\* ceil(days_in_period + 1) points on its day axis: 367 for the yearly period
\* of 365.25 days and 32 for the monthly period of 365.25 / 12 days.
C10_FullPeriodPoints ==
    Sampled =>
        /\ "day" \in Range(ret.dims)
        /\ DayPoints = IF fourier.cls = "YearlyFourier" THEN 367 ELSE 32
        /\ DayPoints = Len(ret.day)
        /\ \A r \in 1..DayPoints : ret.day[r] = (r - 1) * Day
        /\ ret.day[DayPoints] >= days_in_period(fourier.cls)
        /\ ret.day[DayPoints] < days_in_period(fourier.cls) + Day

C10_WitnessYearly ==
    Sampled /\ fourier.cls = "YearlyFourier" /\ DayPoints = 367

C10_WitnessMonthly ==
    Sampled /\ fourier.cls = "MonthlyFourier" /\ DayPoints = 32

\* the dataset given to the last sample_curve holds the weight variable and
\* lists the coordinates of its axes in the order the prior declares them
HasWeights == fourier.variable_name \in DOMAIN call.parameters.vars
InDeclaredOrder ==
    LET OnWeights(c) == c \in Range(SelfDims)
    IN  SelectSeq(call.parameters.coords, OnWeights) = SelfDims

\* C11: the axes of the curve sample_curve returns are exactly chain, draw,
\* day and the non-harmonic axes of the weight variable, each once: the
\* harmonic axis is not among them and neither is an axis that only another
\* variable of the dataset has, and such a variable does not keep a dataset
\* in declared order from yielding its curve.
C11_CurveAxes ==
    /\ Sampled =>
           /\ Range(ret.dims) = {"chain", "draw", "day"} \cup Range(OtherDims)
           /\ Len(ret.dims) = 3 + Len(OtherDims)
           /\ fourier.prefix \notin Range(ret.dims)
           /\ "additional_dim" \notin Range(ret.dims)
           /\ Len(ret.sizes) = Len(ret.dims)
    /\ (call.op = "sample_curve" /\ HasWeights /\ InDeclaredOrder)
           => raised = NoError

C11_Witness ==
    /\ Sampled
    /\ "another_larger_variable" \in DOMAIN call.parameters.vars
    /\ "additional_dim" \in Range(call.parameters.coords)
    /\ SelfDims = <<"hierarchy", "fourier", "seasonality">>
    /\ fourier.prefix = "fourier"
    /\ ret.dims = <<"chain", "draw", "day", "hierarchy", "seasonality">>

\* C16: the axis names sample_curve attaches to the output of apply (day,
\* then the non-harmonic coordinates in the order the dataset lists them on
\* the weight variable) name, position by position, the axes of the tensor
\* apply returns (the sample axis, then the non-harmonic axes of the prior in
\* declared order), for every coordinate order of the dataset and every
\* declared order of the prior: the labels of every curve returned are the
\* axes of its tensor.
C16_LabelsNameAxes == Sampled => ret.dims = ret.axes

\* a curve whose labels for two axes of equal size are exchanged: the dataset
\* lists the coordinates of the weight variable against the declared order
C16_Mislabelled ==
    /\ Sampled
    /\ fourier.prefix = "seasonality"
    /\ SelfDims = <<"hierarchy", "seasonality", "fourier">>
    /\ call.parameters.coords = <<"chain", "draw", "fourier", "seasonality", "hierarchy">>
    /\ ret.dims = <<"chain", "draw", "day", "fourier", "hierarchy">>
    /\ ret.axes = <<"chain", "draw", "day", "hierarchy", "fourier">>

-----------------------------------------------------------------------------
(* Claims about sample_prior *)

\* the entries of the dict the caller gave to the last sample_prior
GivenCoords == IF call.coords = NoDict THEN EmptyDict ELSE call.coords[1]

\* C14: sample_prior hands the Prior the name variable_name and coords whose
\* entry under the prefix is nodes, whatever the caller had put there, with
\* every other entry of the caller as given and no entry besides; the sample
\* it returns holds the weight variable under variable_name over chain, draw
\* and the dims of the prior, the harmonic axis with 2 * n_order entries.
C14_SamplePriorCoords ==
    call.op = "sample_prior" =>
        /\ call.passed.name = fourier.variable_name
        /\ DOMAIN call.passed.coords = (DOMAIN GivenCoords) \cup {fourier.prefix}
        /\ call.passed.coords[fourier.prefix] = nodes(fourier.n_order)
        /\ Len(call.passed.coords[fourier.prefix]) = 2 * fourier.n_order
        /\ \A key \in (DOMAIN GivenCoords) \ {fourier.prefix} :
               call.passed.coords[key] = GivenCoords[key]
        /\ raised = NoError =>
               /\ DOMAIN ret.vars = {fourier.variable_name}
               /\ ret.vars[fourier.variable_name] = <<"chain", "draw">> \o SelfDims
               /\ ret.sizes[fourier.prefix] = 2 * fourier.n_order
               /\ \A key \in Range(OtherDims) :
                      ret.sizes[key] = Len(GivenCoords[key])

\* the caller's entry under the prefix had two labels and is overwritten by
\* the four nodes of n_order = 2; the entry for hierarchy is kept
C14_Witness ==
    /\ call.op = "sample_prior" /\ raised = NoError
    /\ fourier.prefix = "fourier" /\ fourier.n_order = 2
    /\ fourier.variable_name = "seasonality"
    /\ SelfDims = <<"hierarchy", "fourier">>
    /\ GivenCoords["fourier"] = <<"sin_1", "cos_1">>
    /\ call.passed.coords["fourier"] = <<"sin_1", "sin_2", "cos_1", "cos_2">>
    /\ ret.sizes["fourier"] = 4 /\ ret.sizes["hierarchy"] = 2
    /\ "seasonality" \in DOMAIN ret.vars

====
